---- MODULE Spec2Model ----
(***************************************************************************)
(* DeterministicTripPlanner (src/src/agents/planner.py, lines 531-800).    *)
(*                                                                         *)
(* Units.  Money is counted in mills (1/1000 USD) so that round(x, 2) is a *)
(* real operation; catalog prices are whole-cent amounts.  Times are       *)
(* minutes: a datetime is the number of minutes since 1900-01-01 00:00     *)
(* (the date strptime("%H:%M") yields), and an "HH:MM" string is the       *)
(* minute of the day 0..1439 (zero-padded HH:MM strings compare exactly as *)
(* these numbers do).  Durations in the catalog are whole minutes.         *)
(* Catalog ids are unique.  Display-only fields of a block (reason, the    *)
(* venue's name) are left out; "name" keeps only the prefix that tells     *)
(* lunch ("Обед") from dinner ("Ужин").  t0/t1 of a block are history      *)
(* fields: the datetimes from which the start/end strings were formatted.  *)
(***************************************************************************)
EXTENDS Integers, Sequences, FiniteSets, TLC

\* ------------------------------------------------------------ bounds ----
MaxDays == 2
NumPois == 3
NumVenues == 2

\* --------------------------------------------------- program constants ----
DayAnchor == 540
Noon == 720
LunchMinutes == 90
MorningGap == 15
AfterLunchGap == 15
AfternoonGap == 20
DinnerAnchor == 1140
DinnerStart == 1170
DinnerEnd == 1260
DinnerHeadroom == 20000
DefaultDuration == 90
DefaultPoiCost == 0
DefaultCheck == 15000
DefaultLunchCheck == 15000
DefaultDinnerCheck == 20000
DefaultRating == 40
DefaultOpens == 0
DefaultCloses == 1439
SegmentCap == 2
MinutesPerDay == 1440

None == "None"

\* variant: slow has the range of medium
PACE_CONFIG_SlowAsMedium ==
  [slow |-> <<3, 4>>, medium |-> <<3, 4>>, fast |-> <<5, 6>>]

PACE_CONFIG ==
  [slow |-> <<2, 3>>, medium |-> <<3, 4>>, fast |-> <<5, 6>>]

DefaultPace == <<3, 4>>

\* dict.get(key, default)
Get(d, key, default) == IF key \in DOMAIN d THEN d[key] ELSE default

\* the empty dict {}
EmptyDict == [x \in {} |-> 0]

\* datetime.strftime("%H:%M"): the time of day, the date is dropped
strftime(t) == t % MinutesPerDay

\* round(total_cost, 2): to the nearest cent, ties to even
round2(m) ==
  LET q == m \div 10
      r == m % 10
  IN  IF r < 5 THEN q * 10
      ELSE IF r > 5 THEN (q + 1) * 10
      ELSE IF q % 2 = 0 THEN q * 10 ELSE (q + 1) * 10

\* str.lower() on the interest words of the model
lower(s) ==
  CASE s = "History" -> "history"
    [] s = "FOOD" -> "food"
    [] OTHER -> s

\* The "YYYY-MM-DD" strings passed as start_date and the day each names,
\* counted from 2025-03-01 = 1.  A datetime holding a date is the number of
\* minutes since 2025-02-28 00:00; a formatted date is kept as its day
\* number.  Any other string does not parse.
Calendar == ("2025-03-20" :> 20) @@ ("2025-03-21" :> 21)

ParsesDate(s) == s \in DOMAIN Calendar

\* datetime.strptime(s, "%Y-%m-%d"): midnight of the day
strptime_date(s) == Calendar[s] * MinutesPerDay

\* datetime.strftime("%Y-%m-%d"): the day, the time of day is dropped
strftime_date(t) == t \div MinutesPerDay

\* variant: day N is N days after the start
PlusDaysNext(d, n) == d + (n + 1) * MinutesPerDay

\* d + timedelta(days=n)
PlusDays(d, n) == d + n * MinutesPerDay

\* ------------------------------------------------------ the data files ----
PoiIds == <<"p1", "p2", "p3", "p4", "p5", "p6">>
VenueIds == <<"v1", "v2", "v3", "v4", "v5">>

\* Kinds of POI record found in poi.json; "description" is the set of
\* interest words that occur in the lower-cased description.
PoiProfiles == <<
  [best_time |-> "morning", cost_usd |-> 5000,
   category |-> {"history"}, tags |-> {"must-see", "unesco", "history"},
   description |-> {"history"}, avg_rating |-> 49],
  [duration_hours |-> 240, category |-> {"food"}, description |-> {"food"}],
  [best_time |-> "morning", duration_hours |-> 480, cost_usd |-> 30000,
   category |-> {"day_trip", "nature"}, tags |-> {"must-see"},
   description |-> {}, avg_rating |-> 47],
  [best_time |-> "sunset", duration_hours |-> 600, cost_usd |-> 50000,
   category |-> {"overnight"}, tags |-> {"history"},
   description |-> {}, avg_rating |-> 50]
>>

\* Kinds of venue record found in hotels_restaurants.json
VenueProfiles == <<
  [opens_at |-> 660, closing_hours |-> 900, avg_check_usd |-> 10000,
   rating |-> 45],
  [x \in {} |-> 0]
>>

WithId(rec, id) ==
  [k \in DOMAIN rec \cup {"id"} |-> IF k = "id" THEN id ELSE rec[k]]

\* a record of the file that has no "id" key
NoIdRecord == [best_time |-> "any"]

SeqsUpTo(S, n) == UNION {[1..k -> S] : k \in 0..n}

PoiRecords ==
  {[i \in DOMAIN c |-> WithId(PoiProfiles[c[i]], PoiIds[i])] :
     c \in SeqsUpTo(DOMAIN PoiProfiles, NumPois)}

VenueRecords ==
  {[i \in DOMAIN c |-> WithId(VenueProfiles[c[i]], VenueIds[i])] :
     c \in SeqsUpTo(DOMAIN VenueProfiles, NumVenues)}

\* exists: Path.exists(); parses: json.load succeeds; records: the list
\* under the "poi" / "restaurants" key
PoiFiles ==
  {[exists |-> FALSE, parses |-> FALSE, records |-> <<>>],
   [exists |-> TRUE, parses |-> FALSE, records |-> <<>>],
   [exists |-> TRUE, parses |-> TRUE, records |-> <<NoIdRecord>>]}
  \cup {[exists |-> TRUE, parses |-> TRUE, records |-> r] : r \in PoiRecords}

HrFiles ==
  {[exists |-> FALSE, parses |-> FALSE, records |-> <<>>],
   [exists |-> TRUE, parses |-> FALSE, records |-> <<>>],
   [exists |-> TRUE, parses |-> TRUE, records |-> <<NoIdRecord>>]}
  \cup {[exists |-> TRUE, parses |-> TRUE, records |-> r] : r \in VenueRecords}

\* arguments of create_plan
DaysArgs == (-1)..MaxDays
BudgetArgs == {30000, 100000}
PaceArgs == {"slow", "medium"}
InterestArgs == {<<"History", "food">>}
StartDateArgs == {"2025-03-20"}

\* what the system clock shows when the planner is constructed
ClockValues == {43815}

VARIABLES
  pc,                \* "new", "raised", "ready", the position in create_plan, "done"
  poi_file, hr_file, \* database/poi.json, database/hotels_restaurants.json
  poi_data, poi_index, restaurants, restaurant_index,
  days, interests, budget, pace, start_date,
  warnings, plan_days, total_cost, poi_count, meal_count,
  min_poi, max_poi, scored_pois, used_poi_ids, current_date,
  day_num, blocks, day_cost, day_pois, morning_pois, other_pois,
  current_time,
  lunch_rest,        \* <<>> for None, <<venue>> for the venue chosen for lunch
  lunch_end,
  result,
  now,               \* the system clock read by datetime.now()
  reload_pc,         \* the position of a second _load_data() call, 0: none
  peer,              \* the frame of the other thread's create_plan call
  alone,             \* history: no other call was in progress during this one
  log,               \* history: the calls that have returned
  fb_pc,             \* the position in AIRoutePlanner._generate_fallback_route
  request,
  route_pois,        \* the parameter "pois" of _generate_fallback_route
  mountain_pois, mountain_day, style,
  sorted_pois, used_pois,
  route_days,        \* the local "days" of _generate_fallback_route
  route_day_num,     \* its local "day_num"
  route              \* <<>> for None, <<Route>> for the route returned

catalog == <<poi_data, poi_index, restaurants, restaurant_index>>
files == <<poi_file, hr_file>>
args == <<days, interests, budget, pace, start_date>>
run == <<warnings, plan_days, total_cost, poi_count, meal_count,
         min_poi, max_poi, scored_pois, used_poi_ids, current_date>>
daystate == <<day_num, blocks, day_cost, day_pois, morning_pois, other_pois,
              current_time, lunch_rest, lunch_end>>
threads == <<peer, alone, log>>
fallback == <<fb_pc, request, route_pois, mountain_pois, mountain_day, style,
              sorted_pois, used_pois, route_days, route_day_num, route>>
env == <<now, reload_pc, threads, fallback>>
vars == <<pc, files, catalog, args, run, daystate, result, env>>

\* dict built by {p["id"]: p for p in records}
\* _generate_fallback_route has not been called
FallbackIdle ==
  /\ fb_pc = "idle"
  /\ request = EmptyDict /\ route_pois = <<>> /\ mountain_pois = <<>>
  /\ mountain_day = 0 /\ style = "balanced"
  /\ sorted_pois = <<>> /\ used_pois = {}
  /\ route_days = <<>> /\ route_day_num = 0 /\ route = <<>>

\* variant: the last record of the list is left out of the index
IndexOfButLast(records) ==
  [id \in {records[i].id : i \in 1..(Len(records) - 1)} |->
     records[CHOOSE i \in 1..(Len(records) - 1) : records[i].id = id]]

IndexOf(records) ==
  [id \in {records[i].id : i \in DOMAIN records} |->
     records[CHOOSE i \in DOMAIN records :
               /\ records[i].id = id
               /\ \A j \in DOMAIN records : records[j].id = id => j <= i]]

HasIds(records) == \A i \in DOMAIN records : "id" \in DOMAIN records[i]

Init ==
  /\ pc = "new"
  /\ poi_file \in PoiFiles
  /\ hr_file \in HrFiles
  /\ poi_data = <<>>
  /\ poi_index = EmptyDict
  /\ restaurants = <<>>
  /\ restaurant_index = EmptyDict
  /\ days = 0 /\ interests = <<>> /\ budget = 0 /\ pace = "medium"
  /\ start_date = None /\ current_date = 0
  /\ now \in ClockValues
  /\ reload_pc = 0
  /\ FallbackIdle
  /\ peer = EmptyDict /\ alone = TRUE /\ log = <<>>
  /\ warnings = <<>> /\ plan_days = <<>> /\ total_cost = 0
  /\ poi_count = 0 /\ meal_count = 0
  /\ min_poi = 0 /\ max_poi = 0 /\ scored_pois = <<>> /\ used_poi_ids = {}
  /\ day_num = 0 /\ blocks = <<>> /\ day_cost = 0
  /\ day_pois = <<>> /\ morning_pois = <<>> /\ other_pois = <<>>
  /\ current_time = 0 /\ lunch_rest = <<>> /\ lunch_end = 0
  /\ result = EmptyDict

\* __init__ with _load_data: json.load raises on an unparseable file and
\* p["id"] raises KeyError on a record without id; neither is caught.
LoadRaises ==
  \/ poi_file.exists /\ (~poi_file.parses \/ ~HasIds(poi_file.records))
  \/ hr_file.exists /\ (~hr_file.parses \/ ~HasIds(hr_file.records))

Construct ==
  /\ pc = "new"
  /\ IF LoadRaises
     THEN /\ pc' = "raised"
          /\ UNCHANGED catalog
     ELSE /\ pc' = "ready"
          /\ poi_data' = IF poi_file.exists THEN poi_file.records ELSE <<>>
          /\ poi_index' = IF poi_file.exists THEN IndexOf(poi_file.records)
                          ELSE EmptyDict
          /\ restaurants' = IF hr_file.exists THEN hr_file.records ELSE <<>>
          /\ restaurant_index' = IF hr_file.exists THEN IndexOf(hr_file.records)
                                 ELSE EmptyDict
  /\ UNCHANGED <<env, files, args, run, daystate, result>>

\* ------------------------------------------------------------ helpers ----
RECURSIVE InterestScore(_, _, _)
\* the "for interest in interests" loop of _score_pois, in 1/20 points
InterestScore(poi, ints, i) ==
  IF i > Len(ints) THEN 0
  ELSE LET il == lower(ints[i])
       IN  (IF il \in Get(poi, "tags", {}) THEN 40 ELSE 0)
           + (IF il \in Get(poi, "category", {}) THEN 30 ELSE 0)
           + (IF il \in Get(poi, "description", {}) THEN 10 ELSE 0)
           + InterestScore(poi, ints, i + 1)

PoiScore(poi, ints) ==
  InterestScore(poi, ints, 1)
  + (IF "must-see" \in Get(poi, "tags", {}) THEN 60 ELSE 0)
  + (IF "unesco" \in Get(poi, "tags", {}) THEN 40 ELSE 0)
  + (Get(poi, "avg_rating", DefaultRating) - 40)

\* variant: equal keys come out in reverse order
SortDescTiesReversed(s) ==
  LET pos(i) == Cardinality({j \in DOMAIN s :
                   s[j][2] > s[i][2] \/ (s[j][2] = s[i][2] /\ j > i)}) + 1
  IN  [p \in DOMAIN s |-> s[CHOOSE i \in DOMAIN s : pos(i) = p]]

\* list.sort(key, reverse=True): descending, equal keys keep their order.
\* s is a sequence of <<item, key>> pairs.
SortDescByKey(s) ==
  LET pos(i) == Cardinality({j \in DOMAIN s :
                   s[j][2] > s[i][2] \/ (s[j][2] = s[i][2] /\ j < i)}) + 1
  IN  [p \in DOMAIN s |-> s[CHOOSE i \in DOMAIN s : pos(i) = p]]

\* blocks.sort(key=lambda b: b["start"]): ascending, stable
SortByStart(bs) ==
  LET pos(i) == Cardinality({j \in DOMAIN bs :
                   bs[j].start < bs[i].start
                   \/ (bs[j].start = bs[i].start /\ j < i)}) + 1
  IN  [p \in DOMAIN bs |-> bs[CHOOSE i \in DOMAIN bs : pos(i) = p]]

_score_pois(pois, ints) ==
  SortDescByKey([i \in DOMAIN pois |->
                   <<Get(pois[i], "id", None), PoiScore(pois[i], ints)>>])

\* variant: the day-1 test on "day_trip" is missing
ExcludedOvernightOnly(poi, dnum) == "overnight" \in Get(poi, "category", {})

\* lines 748-749: the two category exclusions of _select_pois_for_day
Excluded(poi, dnum) ==
  \/ dnum = 1 /\ "day_trip" \in Get(poi, "category", {})
  \/ "overnight" \in Get(poi, "category", {})

\* variant: > instead of >=
EnoughLate(selected, max_c) == Len(selected) > max_c

\* line 746: if len(selected) >= max_count: break
Enough(selected, max_c) == Len(selected) >= max_c

RECURSIVE SelectLoop(_, _, _, _, _, _, _)
SelectLoop(index, scored, used, max_c, dnum, i, selected) ==
  IF i > Len(scored) THEN selected
  ELSE LET poi_id == scored[i][1]
           poi == Get(index, poi_id, EmptyDict)
           next(sel) == SelectLoop(index, scored, used, max_c, dnum, i + 1, sel)
       IN  IF poi_id \in used THEN next(selected)
           ELSE IF Enough(selected, max_c) THEN selected
           ELSE IF Excluded(poi, dnum) THEN next(selected)
           ELSE next(Append(selected, poi_id))

_select_pois_for_day(index, scored, used, min_c, max_c, dnum) ==
  SelectLoop(index, scored, used, max_c, dnum, 1, <<>>)

Range(s) == {s[i] : i \in DOMAIN s}

\* variant: the whole list
TakeAll(s, n) == s

\* s[:n]
Take(s, n) == SubSeq(s, 1, IF Len(s) < n THEN Len(s) ELSE n)

Max(a, b) == IF a >= b THEN a ELSE b

RECURSIVE PlacePoisNoGap(_, _, _, _, _)
\* variant: the cursor moves by the duration only
PlacePoisNoGap(index, ids, i, cursor, gap) ==
  IF i > Len(ids) THEN <<(<<>>), cursor>>
  ELSE LET poi == Get(index, ids[i], EmptyDict)
           duration == Get(poi, "duration_hours", DefaultDuration)
           cost == Get(poi, "cost_usd", DefaultPoiCost)
           b == [start |-> strftime(cursor),
                 end |-> strftime(cursor + duration),
                 type |-> "poi", poi_id |-> ids[i], venue_id |-> None,
                 name |-> "poi", cost_usd |-> cost,
                 t0 |-> cursor, t1 |-> cursor + duration]
           rest == PlacePoisNoGap(index, ids, i + 1, cursor + duration, gap)
       IN  <<(<<b>>) \o rest[1], rest[2]>>

RECURSIVE PlacePois(_, _, _, _, _)
\* The body shared by the two "for poi_id in ...[:2]" loops: the blocks
\* appended, and the cursor after the last one.  Result: <<blocks, cursor>>.
PlacePois(index, ids, i, cursor, gap) ==
  IF i > Len(ids) THEN <<(<<>>), cursor>>
  ELSE LET poi == Get(index, ids[i], EmptyDict)
           duration == Get(poi, "duration_hours", DefaultDuration)
           cost == Get(poi, "cost_usd", DefaultPoiCost)
           b == [start |-> strftime(cursor),
                 end |-> strftime(cursor + duration),
                 type |-> "poi", poi_id |-> ids[i], venue_id |-> None,
                 name |-> "poi", cost_usd |-> cost,
                 t0 |-> cursor, t1 |-> cursor + duration]
           rest == PlacePois(index, ids, i + 1, cursor + duration + gap, gap)
       IN  <<(<<b>>) \o rest[1], rest[2]>>

RECURSIVE SumCost(_, _)
SumCost(bs, i) == IF i > Len(bs) THEN 0 ELSE bs[i].cost_usd + SumCost(bs, i + 1)

\* datetime.strptime(s, "%H:%M") succeeds
Parses(s) == s \in 0..(MinutesPerDay - 1)

\* variant: nothing is skipped
SkippedNever(rest, exclude) == FALSE

\* line 770: if rest["id"] == exclude: continue
Skipped(rest, exclude) == rest.id = exclude

\* variant: the factor 1.5 is missing
WithinPriceNoSlack(rest, max_price) ==
  Get(rest, "avg_check_usd", DefaultCheck) * max_price.den <= max_price.num

\* line 780: rest.get("avg_check_usd", 15) <= max_price * 1.5
WithinPrice(rest, max_price) ==
  Get(rest, "avg_check_usd", DefaultCheck) * max_price.den * 2
    <= max_price.num * 3

\* body of the "for rest in self.restaurants" loop: rest becomes a candidate.
\* max_price is the fraction num/den (budget / days / 3 is not an integer).
IsCandidate(rest, time, max_price, exclude) ==
  LET opens == Get(rest, "opens_at", DefaultOpens)
      closes == Get(rest, "closing_hours", DefaultCloses)
      closes_dt == IF closes <= opens THEN DefaultCloses ELSE closes
      closed == /\ Parses(opens) /\ Parses(closes)
                /\ ~(opens <= time /\ time <= closes_dt)
  IN  /\ ~Skipped(rest, exclude)
      /\ ~closed
      /\ WithinPrice(rest, max_price)

\* The position in rests of the venue returned, 0 for None.
_select_restaurant(rests, time, max_price, exclude) ==
  IF ~Parses(time) THEN 0
  ELSE LET idx == SelectSeq([i \in DOMAIN rests |-> i],
                     LAMBDA i : IsCandidate(rests[i], time, max_price, exclude))
           candidates == SortDescByKey([k \in DOMAIN idx |->
                           <<idx[k], Get(rests[idx[k]], "rating", DefaultRating)>>])
       IN  IF candidates = <<>> THEN 0 ELSE candidates[1][1]

\* the truth value of an id: None and the empty string are false
Truthy(x) == x # None /\ x # ""

\* variant: the venue test is an elif of the POI test
IssuesOfBlockElif(b, pindex, rindex) ==
  IF Truthy(Get(b, "poi_id", None)) /\ b.poi_id \notin DOMAIN pindex
  THEN <<[kind |-> "unknown_poi", id |-> b.poi_id]>>
  ELSE IF Truthy(Get(b, "venue_id", None)) /\ b.venue_id \notin DOMAIN rindex
  THEN <<[kind |-> "unknown_restaurant", id |-> b.venue_id]>>
  ELSE <<>>

\* lines 792-795: the two id tests on one block
IssuesOfBlock(b, pindex, rindex) ==
  (IF Truthy(Get(b, "poi_id", None)) /\ b.poi_id \notin DOMAIN pindex
   THEN <<[kind |-> "unknown_poi", id |-> b.poi_id]>> ELSE <<>>)
  \o (IF Truthy(Get(b, "venue_id", None)) /\ b.venue_id \notin DOMAIN rindex
      THEN <<[kind |-> "unknown_restaurant", id |-> b.venue_id]>> ELSE <<>>)

RECURSIVE BlockIssues(_, _, _, _)
BlockIssues(bs, i, pindex, rindex) ==
  IF i > Len(bs) THEN <<>>
  ELSE IssuesOfBlock(bs[i], pindex, rindex)
       \o BlockIssues(bs, i + 1, pindex, rindex)

RECURSIVE OverlapIssues(_, _, _)
OverlapIssues(bs, i, dnum) ==
  IF i > Len(bs) - 1 THEN <<>>
  ELSE (IF bs[i].end > bs[i + 1].start
        THEN <<[kind |-> "overlap", day |-> dnum]>> ELSE <<>>)
       \o OverlapIssues(bs, i + 1, dnum)

RECURSIVE ValidateDays(_, _, _, _)
ValidateDays(pdays, d, pindex, rindex) ==
  IF d > Len(pdays) THEN <<>>
  ELSE BlockIssues(pdays[d].blocks, 1, pindex, rindex)
       \o OverlapIssues(pdays[d].blocks, 1, pdays[d].day_number)
       \o ValidateDays(pdays, d + 1, pindex, rindex)

_validate_plan(pdays, pindex, rindex) == ValidateDays(pdays, 1, pindex, rindex)

\* ------------------------------------------------------- create_plan ----
\* variant: range(1, days)
InRangeShort(dnum, d) == dnum < d

\* variant: range(1, days + 2)
InRangeLong(dnum, d) == dnum <= d + 1

\* line 605: for day_num in range(1, days + 1)
InRange(dnum, d) == dnum <= d

\* variant: the selected ids are not recorded
AddUsedForgets(used, sel) == used

\* lines 611-612: for pid in day_pois: used_poi_ids.add(pid)
\* variant: only the ids the two segments can place are marked
AddUsedPlaceable(used, sel) == used \cup Range(Take(sel, 2 * SegmentCap))

AddUsed(used, sel) == used \cup Range(sel)

\* lines 654, 656: the cost of the lunch block, and what is added to day_cost
LunchBlockCost(rest) == Get(rest, "avg_check_usd", DefaultLunchCheck)
LunchDayCost(rest) == Get(rest, "avg_check_usd", DefaultLunchCheck)

\* variant: the lunch default is added for a dinner without a price
DinnerDayCostLunchDefault(rest) == Get(rest, "avg_check_usd", DefaultLunchCheck)

\* lines 691, 693: the same for dinner
DinnerBlockCost(rest) == Get(rest, "avg_check_usd", DefaultDinnerCheck)
DinnerDayCost(rest) == Get(rest, "avg_check_usd", DefaultDinnerCheck)

\* variant: the clock is read whatever start_date is
StartOfClock(sd, clock) == clock

\* lines 597-603: the date of day 1
StartOf(sd, clock) ==
  IF sd # None /\ ParsesDate(sd) THEN strptime_date(sd) ELSE clock

\* lines 587-603: the locals of an invocation, up to the day loop
Call(d, ints, b, p, sd) ==
  /\ pc = "ready"
  /\ days' = d /\ interests' = ints /\ budget' = b /\ pace' = p
  /\ start_date' = sd
  /\ current_date' = StartOf(sd, now)
  /\ warnings' = <<>> /\ plan_days' = <<>> /\ total_cost' = 0
  /\ poi_count' = 0 /\ meal_count' = 0
  /\ min_poi' = Get(PACE_CONFIG, p, DefaultPace)[1]
  /\ max_poi' = Get(PACE_CONFIG, p, DefaultPace)[2]
  /\ scored_pois' = _score_pois(poi_data, ints)
  /\ used_poi_ids' = {}
  /\ day_num' = 1
  /\ pc' = IF InRange(1, d) THEN "select" ELSE "gates"
  /\ UNCHANGED <<env, files, catalog, blocks, day_cost, day_pois, morning_pois,
                 other_pois, current_time, lunch_rest, lunch_end, result>>

\* line 617: the selected ids whose record has best_time == "morning"
MorningTagged(index, sel) ==
  LET isMorning(p) ==
        Get(Get(index, p, EmptyDict), "best_time", None) = "morning"
  IN  SelectSeq(sel, isMorning)

\* line 618: the selected ids that are not in the morning list
NotMorning(index, sel) ==
  LET notMorning(p) == p \notin Range(MorningTagged(index, sel))
  IN  SelectSeq(sel, notMorning)

\* variant: no POI is moved to the morning when none is tagged
PromotesNever(morning, other) == FALSE

\* line 620: if not morning_pois and other_pois
Promotes(morning, other) == morning = <<>> /\ other # <<>>

\* lines 606-621: a day starts; selection, used ids, the morning/other split
SelectDay ==
  /\ pc = "select"
  /\ LET sel == _select_pois_for_day(poi_index, scored_pois, used_poi_ids,
                                     min_poi, max_poi, day_num)
         morning == MorningTagged(poi_index, sel)
         other == NotMorning(poi_index, sel)
         promote == Promotes(morning, other)
     IN  /\ day_pois' = sel
         /\ used_poi_ids' = AddUsed(used_poi_ids, sel)
         /\ morning_pois' = IF promote THEN <<Head(other)>> ELSE morning
         /\ other_pois' = IF promote THEN Tail(other) ELSE other
  /\ blocks' = <<>>
  /\ day_cost' = 0
  /\ current_time' = DayAnchor
  /\ pc' = "morning"
  /\ UNCHANGED <<env, files, catalog, args, warnings, plan_days, total_cost,
                 poi_count, meal_count, current_date, min_poi,
                 max_poi, scored_pois,
                 day_num, lunch_rest, lunch_end, result>>

\* lines 623-639
Morning ==
  /\ pc = "morning"
  /\ LET placed == PlacePois(poi_index, Take(morning_pois, SegmentCap), 1,
                             current_time, MorningGap)
     IN  /\ blocks' = blocks \o placed[1]
         /\ day_cost' = day_cost + SumCost(placed[1], 1)
         /\ poi_count' = poi_count + Len(placed[1])
         /\ current_time' = placed[2]
  /\ pc' = "lunch"
  /\ UNCHANGED <<env, files, catalog, args, warnings, plan_days, total_cost,
                 meal_count, current_date, min_poi,
                 max_poi, scored_pois, used_poi_ids,
                 day_num, day_pois, morning_pois, other_pois,
                 lunch_rest, lunch_end, result>>

\* variant: the cursor moves only when a lunch venue was found
CursorAfterLunchIfFound(cursor, lend, found) ==
  IF found THEN lend + AfterLunchGap ELSE cursor

\* line 659, outside the "if lunch_rest" of line 646
CursorAfterLunch(cursor, lend, found) == lend + AfterLunchGap

\* lines 641-659
Lunch ==
  /\ pc = "lunch"
  /\ LET lunch_start == Max(current_time, Noon)
         lend == lunch_start + LunchMinutes
         r == _select_restaurant(restaurants, strftime(lunch_start),
                                 [num |-> budget, den |-> days * 3], None)
     IN  /\ lunch_rest' = IF r # 0 THEN <<restaurants[r]>> ELSE <<>>
         /\ lunch_end' = lend
         /\ IF r # 0
            THEN /\ blocks' = Append(blocks,
                      [start |-> strftime(lunch_start), end |-> strftime(lend),
                       type |-> "meal", poi_id |-> None,
                       venue_id |-> restaurants[r].id, name |-> "lunch",
                       cost_usd |-> LunchBlockCost(restaurants[r]),
                       t0 |-> lunch_start, t1 |-> lend])
                 /\ day_cost' = day_cost + LunchDayCost(restaurants[r])
                 /\ meal_count' = meal_count + 1
            ELSE UNCHANGED <<blocks, day_cost, meal_count>>
         /\ current_time' = CursorAfterLunch(current_time, lend, r # 0)
  /\ pc' = "afternoon"
  /\ UNCHANGED <<env, files, catalog, args, warnings, plan_days, total_cost,
                 poi_count, current_date, min_poi,
                 max_poi, scored_pois, used_poi_ids,
                 day_num, day_pois, morning_pois, other_pois, result>>

\* lines 662-679
Afternoon ==
  /\ pc = "afternoon"
  /\ LET placed == PlacePois(poi_index, Take(other_pois, SegmentCap), 1,
                             current_time, AfternoonGap)
     IN  /\ blocks' = blocks \o placed[1]
         /\ day_cost' = day_cost + SumCost(placed[1], 1)
         /\ poi_count' = poi_count + Len(placed[1])
         /\ current_time' = placed[2]
  /\ pc' = "dinner"
  /\ UNCHANGED <<env, files, catalog, args, warnings, plan_days, total_cost,
                 meal_count, current_date, min_poi,
                 max_poi, scored_pois, used_poi_ids,
                 day_num, day_pois, morning_pois, other_pois,
                 lunch_rest, lunch_end, result>>

\* line 682: if budget > day_cost + 20
DinnerGate(b, dcost) == b > dcost + DinnerHeadroom

\* variant: the dinner is counted whether or not a venue was found
MealCountedAlways(n, found) == n + 1

\* line 694: meal_count += 1, inside "if dinner_rest"
MealCounted(n, found) == IF found THEN n + 1 ELSE n

\* lines 681-704: the optional dinner, the sort, the day is appended
Dinner ==
  /\ pc = "dinner"
  /\ LET r == IF DinnerGate(budget, day_cost)
              THEN _select_restaurant(restaurants, DinnerAnchor,
                     [num |-> budget, den |-> days * 3],
                     IF lunch_rest # <<>> THEN lunch_rest[1].id ELSE None)
              ELSE 0
         bs == IF r # 0
               THEN Append(blocks,
                      [start |-> DinnerStart, end |-> DinnerEnd,
                       type |-> "meal", poi_id |-> None,
                       venue_id |-> restaurants[r].id, name |-> "dinner",
                       cost_usd |-> DinnerBlockCost(restaurants[r]),
                       t0 |-> DinnerStart, t1 |-> DinnerEnd])
               ELSE blocks
         dcost == IF r # 0 THEN day_cost + DinnerDayCost(restaurants[r])
                  ELSE day_cost
     IN  /\ blocks' = SortByStart(bs)
         /\ day_cost' = dcost
         /\ meal_count' = MealCounted(meal_count, r # 0)
         /\ plan_days' = Append(plan_days,
                           [day_number |-> day_num,
                            date |-> strftime_date(PlusDays(current_date, day_num - 1)),
                            blocks |-> SortByStart(bs)])
         /\ total_cost' = total_cost + dcost
  /\ day_num' = day_num + 1
  /\ pc' = IF InRange(day_num + 1, days) THEN "select" ELSE "gates"
  /\ UNCHANGED <<env, files, catalog, args, warnings, poi_count, current_date, min_poi,
                 max_poi,
                 scored_pois, used_poi_ids, day_pois, morning_pois, other_pois,
                 current_time, lunch_rest, lunch_end, result>>

\* variant: >= instead of >
OverBudgetOrEqual(total, b) == total >= b

\* line 707: if total_cost > budget
OverBudget(total, b) == total > b

\* lines 706-717: quality gates and the returned dict
Gates ==
  /\ pc = "gates"
  /\ LET w == (IF OverBudget(total_cost, budget)
               THEN <<[kind |-> "budget"]>> ELSE <<>>)
              \o _validate_plan(plan_days, poi_index, restaurant_index)
     IN  /\ warnings' = warnings \o w
         /\ result' = [days |-> plan_days, warnings |-> warnings \o w,
                       total_cost_usd |-> round2(total_cost), pace |-> pace,
                       poi_count |-> poi_count, meal_count |-> meal_count]
  /\ pc' = "done"
  /\ UNCHANGED <<env, files, catalog, args, plan_days, total_cost, poi_count,
                 meal_count, current_date, min_poi,
                 max_poi, scored_pois, used_poi_ids,
                 daystate>>

Next ==
  \/ Construct
  \/ \E d \in DaysArgs, ints \in InterestArgs, b \in BudgetArgs, p \in PaceArgs,
        sd \in StartDateArgs :
       Call(d, ints, b, p, sd)
  \/ SelectDay
  \/ Morning
  \/ Lunch
  \/ Afternoon
  \/ Dinner
  \/ Gates

Spec == Init /\ [][Next]_vars

\* ============================================================ claims ====
Returned == pc = "done"

\* <<day index, block index>> of every block of the returned plan
Positions ==
  UNION {{<<d, i>> : i \in DOMAIN result.days[d].blocks} : d \in DOMAIN result.days}

BlockAt(p) == result.days[p[1]].blocks[p[2]]

CategoryOf(id) == Get(Get(poi_index, id, EmptyDict), "category", {})

RECURSIVE SumDays(_, _)
SumDays(pdays, d) ==
  IF d > Len(pdays) THEN 0
  ELSE SumCost(pdays[d].blocks, 1) + SumDays(pdays, d + 1)

\* the sum of the cost of every block of the returned plan
PlanCost == SumDays(result.days, 1)

BudgetWarnings ==
  Cardinality({i \in DOMAIN result.warnings : result.warnings[i].kind = "budget"})

OverlapWarned(dnum) ==
  \E i \in DOMAIN result.warnings :
    /\ result.warnings[i].kind = "overlap"
    /\ result.warnings[i].day = dnum

\* two blocks of the list intersect as intervals of datetimes
RealOverlap(bs) ==
  \E i, j \in DOMAIN bs : i < j /\ bs[i].t0 < bs[j].t1 /\ bs[j].t0 < bs[i].t1

\* C1: a call with days >= 1 returns exactly `days` day entries whose
\* day_number values are 1, 2, ..., days in that order.
C1_DaysContiguous ==
  Returned /\ days >= 1 =>
    /\ Len(result.days) = days
    /\ \A i \in 1..days : result.days[i].day_number = i

C1_Witness ==
  /\ Returned /\ days = MaxDays
  /\ Len(result.days) = MaxDays
  /\ result.days[MaxDays].blocks # <<>>

\* C2: no POI id is referenced by more than one block of the returned plan,
\* neither in two days nor twice in one day.
C2_NoPoiTwice ==
  Returned =>
    \A p, q \in Positions :
      p # q /\ BlockAt(p).poi_id # None => BlockAt(p).poi_id # BlockAt(q).poi_id

C2_Witness ==
  /\ Returned
  /\ \E p, q, r \in Positions :
       /\ p[1] = 1 /\ q[1] = 1 /\ p # q /\ r[1] = 2
       /\ BlockAt(p).poi_id # None /\ BlockAt(q).poi_id # None
       /\ BlockAt(r).poi_id # None

\* C3: in every day of the returned plan the blocks are in non-decreasing
\* start order and adjacent blocks do not overlap: end of block i is at most
\* the start of block i+1 (the dinner block included).
C3_OrderedNoOverlap ==
  Returned =>
    \A d \in DOMAIN result.days :
      LET bs == result.days[d].blocks
      IN  \A i \in 1..(Len(bs) - 1) :
            /\ bs[i].start <= bs[i + 1].start
            /\ bs[i].end <= bs[i + 1].start

\* C4: a day of the returned plan has two blocks whose real time intervals
\* overlap if and only if the warnings contain a time-overlap warning naming
\* that day, also when computed times run past midnight.
C4_OverlapIffWarning ==
  Returned =>
    \A d \in DOMAIN result.days :
      RealOverlap(result.days[d].blocks) <=> OverlapWarned(result.days[d].day_number)

\* C5: total_cost_usd of the returned plan equals the sum of the cost of
\* every block over all days.
C5_TotalIsSumOfBlocks ==
  Returned => result.total_cost_usd = PlanCost

C5_Witness ==
  /\ Returned /\ Len(result.days) = 2
  /\ \E p, q, r \in Positions :
       /\ BlockAt(p).type = "poi" /\ BlockAt(p).cost_usd > 0
       /\ BlockAt(q).name = "lunch" /\ BlockAt(r).name = "dinner"
       /\ BlockAt(r).venue_id \in DOMAIN restaurant_index
       /\ "avg_check_usd" \notin DOMAIN restaurant_index[BlockAt(r).venue_id]

\* C6: the returned warnings hold exactly one budget-overrun warning when
\* the sum of all block costs is strictly greater than the budget, and none
\* otherwise (none when the sum equals the budget).
C6_BudgetWarning ==
  Returned => BudgetWarnings = (IF PlanCost > budget THEN 1 ELSE 0)

C6_Witness ==
  Returned /\ PlanCost > budget /\ BudgetWarnings = 1

\* the cursor when the lunch window is computed: 09:00, or the end of the
\* last POI block placed before the lunch block plus the 15 minute buffer
CursorBeforeLunch(bs, l) ==
  LET before == {i \in DOMAIN bs : bs[i].type = "poi" /\ bs[i].t0 < l.t0}
  IN  IF before = {} THEN DayAnchor
      ELSE LET last == CHOOSE i \in before : \A j \in before : bs[j].t1 <= bs[i].t1
           IN  bs[last].t1 + MorningGap

\* C7: a lunch block never starts before 12:00 (time of day); it starts at
\* max(end of the morning segment + buffer, 12:00) and ends 1 h 30 min later.
C7_LunchNotBeforeNoon ==
  Returned =>
    \A p \in Positions :
      BlockAt(p).name = "lunch" =>
        /\ BlockAt(p).start >= Noon
        /\ BlockAt(p).t0 = Max(CursorBeforeLunch(result.days[p[1]].blocks, BlockAt(p)), Noon)
        /\ BlockAt(p).t1 = BlockAt(p).t0 + LunchMinutes

\* the day's cost before dinner: every block of the day but the dinner block
CostBeforeDinner(bs) ==
  SumCost(SelectSeq(bs, LAMBDA b : b.name # "dinner"), 1)

\* C8: a day has a dinner block only when its cost before dinner plus 20 is
\* at most the per-day budget share budget / days.
C8_DinnerWithinDayShare ==
  Returned =>
    \A p \in Positions :
      BlockAt(p).name = "dinner" =>
        (CostBeforeDinner(result.days[p[1]].blocks) + DinnerHeadroom) * days <= budget

\* C9: no block of day 1 references a "day_trip" POI and no block of any day
\* references an "overnight" POI; a "day_trip" POI skipped on day 1 is not
\* marked used, so it stays eligible for the later days.
C9_DayTripAndOvernight ==
  /\ Returned =>
       \A p \in Positions :
         BlockAt(p).poi_id # None =>
           /\ "overnight" \notin CategoryOf(BlockAt(p).poi_id)
           /\ result.days[p[1]].day_number = 1 =>
                "day_trip" \notin CategoryOf(BlockAt(p).poi_id)
  /\ pc \in {"morning", "lunch", "afternoon", "dinner"} /\ day_num = 1 =>
       \A id \in used_poi_ids : "day_trip" \notin CategoryOf(id)

C9_Witness ==
  /\ Returned
  /\ \E i \in DOMAIN poi_data : "overnight" \in Get(poi_data[i], "category", {})
  /\ \E p, q \in Positions :
       /\ p[1] = 1 /\ BlockAt(p).poi_id # None
       /\ q[1] = 2 /\ BlockAt(q).poi_id # None
       /\ "day_trip" \in CategoryOf(BlockAt(q).poi_id)

\* the data source is present and well formed
WellFormed(f) == f.exists /\ f.parses /\ HasIds(f.records)

\* C10: whether a data source is absent or malformed, constructing the
\* planner does not raise and the corresponding catalog is empty.
C10_LoadFailsSoftly ==
  pc # "new" =>
    /\ pc # "raised"
    /\ ~WellFormed(poi_file) => poi_data = <<>> /\ DOMAIN poi_index = {}
    /\ ~WellFormed(hr_file) => restaurants = <<>> /\ DOMAIN restaurant_index = {}

\* C11: a call with days = 0 or a negative days is rejected with an error or
\* coerced to a valid day count; it does not return a plan built for zero
\* days.
C11_NonPositiveDaysRejected ==
  Returned /\ days <= 0 => Len(result.days) >= 1

\* C12: with an empty POI catalog and an empty venue catalog, a call with
\* days >= 1 and a positive budget returns a plan of exactly `days` days,
\* every day without blocks, poi_count = 0, meal_count = 0, total_cost_usd = 0
\* and no warnings.
C12_EmptyCatalogsEmptyPlan ==
  Returned /\ poi_data = <<>> /\ restaurants = <<>> /\ days >= 1 /\ budget > 0 =>
    /\ Len(result.days) = days
    /\ \A d \in DOMAIN result.days : result.days[d].blocks = <<>>
    /\ result.poi_count = 0
    /\ result.meal_count = 0
    /\ result.total_cost_usd = 0
    /\ result.warnings = <<>>

C12_Witness ==
  /\ Returned /\ poi_data = <<>> /\ restaurants = <<>>
  /\ ~poi_file.exists /\ hr_file.exists
  /\ days = MaxDays /\ Len(result.days) = MaxDays
  /\ result.days[MaxDays].blocks = <<>>

\* ------------------------------------------ the quality gates on any plan ----
\* Blocks of a day plan handed to the gates: a POI block, a block that names
\* a POI and a venue, a meal block, and a meal block whose poi_id is the
\* empty string.
SynthBlocks == <<
  [start |-> 540, end |-> 630, type |-> "poi", poi_id |-> "p1",
   venue_id |-> None, name |-> "poi", cost_usd |-> 5000, t0 |-> 540, t1 |-> 630],
  [start |-> 600, end |-> 700, type |-> "poi", poi_id |-> "p2",
   venue_id |-> "v1", name |-> "poi", cost_usd |-> 0, t0 |-> 600, t1 |-> 700],
  [start |-> 720, end |-> 810, type |-> "meal", poi_id |-> None,
   venue_id |-> "v2", name |-> "lunch", cost_usd |-> 15000, t0 |-> 720, t1 |-> 810],
  [start |-> 1170, end |-> 1260, type |-> "meal", poi_id |-> "",
   venue_id |-> "v1", name |-> "dinner", cost_usd |-> 20000,
   t0 |-> 1170, t1 |-> 1260]
>>

SynthBlockLists ==
  {[i \in DOMAIN c |-> SynthBlocks[c[i]]] : c \in SeqsUpTo(DOMAIN SynthBlocks, 2)}

\* day plans numbered 1, 2, ... with any of the block lists
SynthPlans ==
  {[d \in DOMAIN c |-> [day_number |-> d, date |-> 19 + d, blocks |-> c[d]]] :
     c \in SeqsUpTo(SynthBlockLists, MaxDays)}

\* catalogs of the first k records of one kind
FirstPois(k) == [i \in 1..k |-> WithId(PoiProfiles[1], PoiIds[i])]
FirstVenues(k) == [i \in 1..k |-> WithId(VenueProfiles[1], VenueIds[i])]

\* create_plan stands at the quality gates (line 706) of a planner whose
\* catalog holds 0..2 POIs and 0..2 venues, with any of the plans built
InitGates ==
  /\ pc = "gates"
  /\ \E k \in 0..2 :
       /\ poi_file = [exists |-> TRUE, parses |-> TRUE, records |-> FirstPois(k)]
       /\ poi_data = FirstPois(k)
       /\ poi_index = IndexOf(FirstPois(k))
  /\ \E k \in 0..2 :
       /\ hr_file = [exists |-> TRUE, parses |-> TRUE, records |-> FirstVenues(k)]
       /\ restaurants = FirstVenues(k)
       /\ restaurant_index = IndexOf(FirstVenues(k))
  /\ plan_days \in SynthPlans
  /\ days = Len(plan_days) /\ interests = <<>> /\ budget = 100000 /\ pace = "medium"
  /\ start_date = "2025-03-20" /\ current_date = strptime_date("2025-03-20")
  /\ now \in ClockValues
  /\ reload_pc = 0
  /\ FallbackIdle
  /\ peer = EmptyDict /\ alone = TRUE /\ log = <<>>
  /\ warnings = <<>> /\ total_cost = SumDays(plan_days, 1)
  /\ poi_count = 0 /\ meal_count = 0
  /\ min_poi = 3 /\ max_poi = 4 /\ scored_pois = <<>> /\ used_poi_ids = {}
  /\ day_num = days + 1 /\ blocks = <<>> /\ day_cost = 0
  /\ day_pois = <<>> /\ morning_pois = <<>> /\ other_pois = <<>>
  /\ current_time = 0 /\ lunch_rest = <<>> /\ lunch_end = 0
  /\ result = EmptyDict

NextGates == Gates

SpecGates == InitGates /\ [][NextGates]_vars

AllBlocks(pdays) ==
  UNION {{<<d, i>> : i \in DOMAIN pdays[d].blocks} : d \in DOMAIN pdays}

\* the blocks of the plan whose non-empty id under key is not in the index
UnknownRefs(pdays, key, index, id) ==
  {p \in AllBlocks(pdays) :
     LET b == pdays[p[1]].blocks[p[2]]
     IN  b[key] = id /\ id # None /\ id # "" /\ id \notin DOMAIN index}

WarningsNaming(ws, kind, id) ==
  {i \in DOMAIN ws : ws[i].kind = kind /\ ws[i].id = id}

SynthIds == {"", None, "p1", "p2", "v1", "v2"}

\* C13: the validator does not abort the plan: the gates return the whole
\* plan they were given, with one warning naming the id for each block whose
\* non-empty poi_id is not in the POI index and one for each block whose
\* non-empty venue_id is not in the venue index, and leave the day plans as
\* they were.
C13_UnknownIdsWarned ==
  /\ [](Returned =>
         /\ result.days = plan_days
         /\ \A id \in SynthIds :
              /\ Cardinality(WarningsNaming(result.warnings, "unknown_poi", id))
                   = Cardinality(UnknownRefs(plan_days, "poi_id", poi_index, id))
              /\ Cardinality(WarningsNaming(result.warnings, "unknown_restaurant", id))
                   = Cardinality(UnknownRefs(plan_days, "venue_id", restaurant_index, id)))
  /\ [][plan_days' = plan_days]_vars

C13_Witness ==
  /\ Returned
  /\ Cardinality(WarningsNaming(result.warnings, "unknown_poi", "p2")) = 2
  /\ Cardinality(WarningsNaming(result.warnings, "unknown_restaurant", "v1")) = 2
  /\ Len(result.days) = 2

\* ------------------------------------- two threads calling create_plan ----
MaxCalls == 3

\* The frame of an invocation: its parameters and locals (lines 578-595 and
\* the locals of the day loop), and where it stands.
Frame ==
  [pc |-> pc, alone |-> alone, days |-> days, interests |-> interests,
   budget |-> budget, pace |-> pace, start_date |-> start_date,
   warnings |-> warnings, plan_days |-> plan_days,
   total_cost |-> total_cost, poi_count |-> poi_count,
   meal_count |-> meal_count, min_poi |-> min_poi, max_poi |-> max_poi,
   scored_pois |-> scored_pois, used_poi_ids |-> used_poi_ids,
   current_date |-> current_date, day_num |-> day_num, blocks |-> blocks,
   day_cost |-> day_cost, day_pois |-> day_pois,
   morning_pois |-> morning_pois, other_pois |-> other_pois,
   current_time |-> current_time, lunch_rest |-> lunch_rest,
   lunch_end |-> lunch_end, result |-> result]

\* the frame of a thread that is not inside create_plan
IdleFrame ==
  [pc |-> "ready", alone |-> TRUE, days |-> 0, interests |-> <<>>,
   budget |-> 0, pace |-> "medium", start_date |-> None, warnings |-> <<>>,
   plan_days |-> <<>>, total_cost |-> 0, poi_count |-> 0, meal_count |-> 0,
   min_poi |-> 0, max_poi |-> 0, scored_pois |-> <<>>, used_poi_ids |-> {},
   current_date |-> 0, day_num |-> 0, blocks |-> <<>>, day_cost |-> 0,
   day_pois |-> <<>>, morning_pois |-> <<>>, other_pois |-> <<>>,
   current_time |-> 0, lunch_rest |-> <<>>, lunch_end |-> 0,
   result |-> EmptyDict]

InCall(f) == f.pc # "ready"

\* variant: used_poi_ids is an attribute of the planner, shared by the calls
ResumeUsedShared(f, shared) == shared

\* line 595: used_poi_ids is a local of the invocation
ResumeUsed(f, shared) == f.used_poi_ids

\* the running thread continues in frame f
Resume(f) ==
  /\ pc' = f.pc
  /\ alone' = f.alone
  /\ used_poi_ids' = ResumeUsed(f, used_poi_ids)
  /\ days' = f.days
  /\ interests' = f.interests
  /\ budget' = f.budget
  /\ pace' = f.pace
  /\ start_date' = f.start_date
  /\ warnings' = f.warnings
  /\ plan_days' = f.plan_days
  /\ total_cost' = f.total_cost
  /\ poi_count' = f.poi_count
  /\ meal_count' = f.meal_count
  /\ min_poi' = f.min_poi
  /\ max_poi' = f.max_poi
  /\ scored_pois' = f.scored_pois
  /\ current_date' = f.current_date
  /\ day_num' = f.day_num
  /\ blocks' = f.blocks
  /\ day_cost' = f.day_cost
  /\ day_pois' = f.day_pois
  /\ morning_pois' = f.morning_pois
  /\ other_pois' = f.other_pois
  /\ current_time' = f.current_time
  /\ lunch_rest' = f.lunch_rest
  /\ lunch_end' = f.lunch_end
  /\ result' = f.result

\* the interpreter switches to the other thread
Switch ==
  /\ InCall(Frame) \/ InCall(peer)
  /\ LET both == InCall(Frame) /\ InCall(peer)
     IN  /\ Resume(IF both THEN [peer EXCEPT !.alone = FALSE] ELSE peer)
         /\ peer' = IF both THEN [Frame EXCEPT !.alone = FALSE] ELSE Frame
  /\ UNCHANGED <<fallback, files, catalog, now, reload_pc, log>>

\* line 712: the invocation returns its dict and its frame is gone
Return ==
  /\ pc = "done"
  /\ log' = Append(log, [args |-> args, current_date |-> current_date,
                         alone |-> alone /\ ~InCall(peer), result |-> result])
  /\ Resume(IdleFrame)
  /\ peer' = IF InCall(peer) THEN [peer EXCEPT !.alone = FALSE] ELSE peer
  /\ UNCHANGED <<fallback, files, catalog, now, reload_pc>>

\* midnight passes; the clock is read only at line 601/603, on entry to
\* create_plan, so it is enough to let it pass while the running thread is
\* outside create_plan
Tick ==
  /\ pc = "ready"
  /\ now \in ClockValues
  /\ now' = now + MinutesPerDay
  /\ UNCHANGED <<pc, fallback, files, catalog, args, run, daystate, result, reload_pc, threads>>

PairPois == [i \in 1..3 |-> WithId(PoiProfiles[i], PoiIds[i])]
PairVenues == [i \in 1..2 |-> WithId(VenueProfiles[i], VenueIds[i])]
\* <<days, start_date>> of the calls made
PairArgs == {<<1, "2025-03-20">>, <<2, "2025-03-20">>, <<1, None>>}

\* a constructed planner and two idle threads
InitPair ==
  /\ poi_file = [exists |-> TRUE, parses |-> TRUE, records |-> PairPois]
  /\ hr_file = [exists |-> TRUE, parses |-> TRUE, records |-> PairVenues]
  /\ poi_data = PairPois /\ poi_index = IndexOf(PairPois)
  /\ restaurants = PairVenues /\ restaurant_index = IndexOf(PairVenues)
  /\ now \in ClockValues
  /\ reload_pc = 0
  /\ FallbackIdle
  /\ peer = IdleFrame /\ log = <<>>
  /\ pc = "ready" /\ alone = TRUE
  /\ days = 0 /\ interests = <<>> /\ budget = 0 /\ pace = "medium"
  /\ start_date = None /\ current_date = 0
  /\ warnings = <<>> /\ plan_days = <<>> /\ total_cost = 0
  /\ poi_count = 0 /\ meal_count = 0
  /\ min_poi = 0 /\ max_poi = 0 /\ scored_pois = <<>> /\ used_poi_ids = {}
  /\ day_num = 0 /\ blocks = <<>> /\ day_cost = 0
  /\ day_pois = <<>> /\ morning_pois = <<>> /\ other_pois = <<>>
  /\ current_time = 0 /\ lunch_rest = <<>> /\ lunch_end = 0
  /\ result = EmptyDict

NextPair ==
  \/ \E a \in PairArgs, ints \in InterestArgs :
       /\ Len(log) + (IF InCall(peer) THEN 1 ELSE 0) < MaxCalls
       /\ Call(a[1], ints, 100000, "slow", a[2])
  \/ SelectDay
  \/ Morning
  \/ Lunch
  \/ Afternoon
  \/ Dinner
  \/ Gates
  \/ Return
  \/ Switch
  \/ Tick

SpecPair == InitPair /\ [][NextPair]_vars

\* the catalog is what _load_data read from the files
CatalogAsLoaded ==
  /\ poi_data = poi_file.records /\ poi_index = IndexOf(poi_file.records)
  /\ restaurants = hr_file.records /\ restaurant_index = IndexOf(hr_file.records)

\* C14: an invocation of create_plan that ran while another invocation on
\* the same planner was in progress returns exactly the plan that the same
\* call returns when it runs alone, and no invocation changes the catalog.
C14_InterleavedAsAlone ==
  /\ CatalogAsLoaded
  /\ \A i, j \in DOMAIN log :
       /\ log[i].args = log[j].args
       /\ log[i].current_date = log[j].current_date
       /\ ~log[i].alone /\ log[j].alone
       => log[i].result = log[j].result

C14_Witness ==
  \E i, j, k \in DOMAIN log :
    /\ ~log[i].alone /\ ~log[k].alone /\ i # k
    /\ log[i].args # log[k].args
    /\ log[j].alone /\ log[j].args = log[i].args
    /\ log[i].args[1] = 2 /\ log[i].result.poi_count = 3
    /\ log[k].result.poi_count = 2

\* C16: two calls with the same days, interests, budget and pace and the
\* same explicit valid start_date return identical plans, whatever calls were
\* made between them.
C16_SameArgsSamePlan ==
  \A i, j \in DOMAIN log :
    /\ log[i].args = log[j].args
    /\ ParsesDate(log[i].args[5])
    /\ log[i].alone /\ log[j].alone
    => log[i].result = log[j].result

C16_Witness ==
  /\ Len(log) = 3
  /\ \A i \in DOMAIN log : log[i].alone
  /\ log[1].args = log[3].args /\ ParsesDate(log[1].args[5])
  /\ log[2].args # log[1].args
  /\ log[1].current_date # log[2].current_date
  /\ log[3].result.poi_count = 3 /\ log[3].result.meal_count > 0

\* -------------------------------- _load_data called on a planner in use ----
\* lines 566-570: self.poi_data is assigned, then self.poi_index
LoadPoiData ==
  /\ reload_pc = 0 /\ ~LoadRaises
  /\ IF poi_file.exists
     THEN poi_data' = poi_file.records /\ reload_pc' = 1
     ELSE UNCHANGED poi_data /\ reload_pc' = 2
  /\ UNCHANGED <<pc, fallback, files, poi_index, restaurants, restaurant_index,
                 args, run, daystate, result, now, threads>>

LoadPoiIndex ==
  /\ reload_pc = 1
  /\ poi_index' = IndexOf(poi_data)
  /\ reload_pc' = 2
  /\ UNCHANGED <<pc, fallback, files, poi_data, restaurants, restaurant_index,
                 args, run, daystate, result, now, threads>>

\* lines 572-576: self.restaurants is assigned, then self.restaurant_index
LoadRestaurants ==
  /\ reload_pc = 2
  /\ IF hr_file.exists
     THEN restaurants' = hr_file.records /\ reload_pc' = 3
     ELSE UNCHANGED restaurants /\ reload_pc' = 4
  /\ UNCHANGED <<pc, fallback, files, poi_data, poi_index, restaurant_index,
                 args, run, daystate, result, now, threads>>

LoadRestaurantIndex ==
  /\ reload_pc = 3
  /\ restaurant_index' = IndexOf(restaurants)
  /\ reload_pc' = 4
  /\ UNCHANGED <<pc, fallback, files, poi_data, poi_index, restaurants,
                 args, run, daystate, result, now, threads>>

\* what the data files hold when _load_data is called again
ReloadPois ==
  {<<>>, FirstPois(1),
   <<WithId(PoiProfiles[3], PoiIds[1]), WithId(PoiProfiles[1], PoiIds[4])>>}
ReloadVenues == {<<>>, <<WithId(VenueProfiles[2], VenueIds[3])>>}

\* the catalog _load_data builds from the two lists
CatalogOf(pois, venues) == <<pois, IndexOf(pois), venues, IndexOf(venues)>>

\* a planner constructed from PairPois and PairVenues; the files have since
\* been rewritten
InitReload ==
  /\ \E r \in ReloadPois :
       poi_file = [exists |-> TRUE, parses |-> TRUE, records |-> r]
  /\ \E r \in ReloadVenues :
       hr_file = [exists |-> TRUE, parses |-> TRUE, records |-> r]
  /\ poi_data = PairPois /\ poi_index = IndexOf(PairPois)
  /\ restaurants = PairVenues /\ restaurant_index = IndexOf(PairVenues)
  /\ now \in ClockValues
  /\ reload_pc = 0
  /\ FallbackIdle
  /\ peer = IdleFrame /\ log = <<>>
  /\ pc = "ready" /\ alone = TRUE
  /\ days = 0 /\ interests = <<>> /\ budget = 0 /\ pace = "medium"
  /\ start_date = None /\ current_date = 0
  /\ warnings = <<>> /\ plan_days = <<>> /\ total_cost = 0
  /\ poi_count = 0 /\ meal_count = 0
  /\ min_poi = 0 /\ max_poi = 0 /\ scored_pois = <<>> /\ used_poi_ids = {}
  /\ day_num = 0 /\ blocks = <<>> /\ day_cost = 0
  /\ day_pois = <<>> /\ morning_pois = <<>> /\ other_pois = <<>>
  /\ current_time = 0 /\ lunch_rest = <<>> /\ lunch_end = 0
  /\ result = EmptyDict

NextReload ==
  \/ \E a \in PairArgs, ints \in InterestArgs :
       Call(a[1], ints, 100000, "slow", a[2])
  \/ SelectDay
  \/ Morning
  \/ Lunch
  \/ Afternoon
  \/ Dinner
  \/ Gates
  \/ LoadPoiData
  \/ LoadPoiIndex
  \/ LoadRestaurants
  \/ LoadRestaurantIndex

SpecReload == InitReload /\ [][NextReload]_vars

\* create_plan has been entered and has a step left to take
Planning == pc \in {"select", "morning", "lunch", "afternoon", "dinner", "gates"}

\* C15: a reload running concurrently with create_plan is one atomic swap:
\* at every step of create_plan the POI list, the POI index, the venue list
\* and the venue index all come from the same load.
C15_ReloadIsAtomic ==
  Planning => catalog = CatalogOf(PairPois, PairVenues) \/ CatalogAsLoaded

\* ------------------------------------------ _select_pois_for_day alone ----
\* <<min_count, max_count>>
SelectCountArgs == {<<1, 1>>, <<1, 2>>, <<2, 3>>}

\* _select_pois_for_day is about to be called on a planner with any of the
\* catalogs, with the scored list of that catalog, any set of used ids and
\* day 1 or a later day
InitSelect ==
  /\ pc = "selecting"
  /\ \E r \in PoiRecords :
       /\ poi_file = [exists |-> TRUE, parses |-> TRUE, records |-> r]
       /\ poi_data = r
       /\ poi_index = IndexOf(r)
       /\ used_poi_ids \in SUBSET {r[i].id : i \in DOMAIN r}
  /\ hr_file = [exists |-> FALSE, parses |-> FALSE, records |-> <<>>]
  /\ restaurants = <<>> /\ restaurant_index = EmptyDict
  /\ interests \in InterestArgs
  /\ scored_pois = _score_pois(poi_data, interests)
  /\ \E c \in SelectCountArgs : min_poi = c[1] /\ max_poi = c[2]
  /\ day_num \in 1..2
  /\ days = 2 /\ budget = 100000 /\ pace = "medium"
  /\ start_date = None /\ current_date = 0
  /\ now \in ClockValues
  /\ reload_pc = 0
  /\ FallbackIdle
  /\ peer = IdleFrame /\ alone = TRUE /\ log = <<>>
  /\ warnings = <<>> /\ plan_days = <<>> /\ total_cost = 0
  /\ poi_count = 0 /\ meal_count = 0
  /\ blocks = <<>> /\ day_cost = 0
  /\ day_pois = <<>> /\ morning_pois = <<>> /\ other_pois = <<>>
  /\ current_time = 0 /\ lunch_rest = <<>> /\ lunch_end = 0
  /\ result = EmptyDict

\* the call of line 610 by itself, without the marking of lines 611-612
SelectOnly ==
  /\ pc = "selecting"
  /\ day_pois' = _select_pois_for_day(poi_index, scored_pois, used_poi_ids,
                                      min_poi, max_poi, day_num)
  /\ pc' = "selected"
  /\ UNCHANGED <<env, files, catalog, args, run, day_num, blocks, day_cost,
                 morning_pois, other_pois, current_time, lunch_rest, lunch_end,
                 result>>

NextSelect == SelectOnly

SpecSelect == InitSelect /\ [][NextSelect]_vars

\* the ids of the scored list, in its order
ScoredIds == [i \in DOMAIN scored_pois |-> scored_pois[i][1]]

Eligible(id) ==
  /\ id \notin used_poi_ids
  /\ "overnight" \notin CategoryOf(id)
  /\ ~(day_num = 1 /\ "day_trip" \in CategoryOf(id))

\* C17: _select_pois_for_day returns, in the order of the scored list,
\* exactly the first max_count ids that are not used, not "overnight" and,
\* on day 1, not "day_trip": at most max_count ids, fewer than min_count when
\* fewer are eligible; it does not change used_ids.
C17_FirstEligible ==
  /\ [](pc = "selected" =>
         LET eligible == SelectSeq(ScoredIds, Eligible)
         IN  /\ day_pois = Take(eligible, max_poi)
             /\ Len(day_pois) <= max_poi
             /\ Len(eligible) < min_poi => Len(day_pois) < min_poi)
  /\ [][used_poi_ids' = used_poi_ids]_vars

C17_Witness ==
  /\ pc = "selected" /\ day_num = 1
  /\ Len(day_pois) = max_poi
  /\ Len(SelectSeq(ScoredIds, Eligible)) > max_poi
  /\ \E i, j \in DOMAIN ScoredIds :
       /\ i < j
       /\ "day_trip" \in CategoryOf(ScoredIds[i])
       /\ ScoredIds[j] = day_pois[1]
  

\* ---------------------------------------------------------- the scorer ----
\* create_plan has computed scored_pois (line 594)
Scored == pc \in {"select", "morning", "lunch", "afternoon", "dinner", "gates", "done"}

\* the points a POI gets for one word: 2.0 as a tag, 1.5 as a category, 0.5
\* as a part of the lower-cased description
WordPoints(poi, w) ==
  (IF w \in Get(poi, "tags", {}) THEN 40 ELSE 0)
  + (IF w \in Get(poi, "category", {}) THEN 30 ELSE 0)
  + (IF w \in Get(poi, "description", {}) THEN 10 ELSE 0)

FlatPoints(poi) ==
  (IF "must-see" \in Get(poi, "tags", {}) THEN 60 ELSE 0)
  + (IF "unesco" \in Get(poi, "tags", {}) THEN 40 ELSE 0)
  + (Get(poi, "avg_rating", 40) - 40)

RECURSIVE SumWords(_, _, _)
SumWords(poi, ws, i) ==
  IF i > Len(ws) THEN 0 ELSE WordPoints(poi, ws[i]) + SumWords(poi, ws, i + 1)

\* the position of the POI in the catalog
CatalogPos(id) == CHOOSE i \in DOMAIN poi_data : poi_data[i].id = id

\* scored_pois has one entry per catalog POI, in descending score order with
\* ties in catalog order, the score of a POI being FlatPoints plus the
\* WordPoints of every word of ws
ScoredBy(ws) ==
  /\ Len(scored_pois) = Len(poi_data)
  /\ \A i \in DOMAIN poi_data :
       Cardinality({k \in DOMAIN scored_pois : scored_pois[k][1] = poi_data[i].id}) = 1
  /\ \A k \in DOMAIN scored_pois :
       scored_pois[k][2] = SumWords(poi_index[scored_pois[k][1]], ws, 1)
                           + FlatPoints(poi_index[scored_pois[k][1]])
  /\ \A k, l \in DOMAIN scored_pois :
       k < l =>
         \/ scored_pois[k][2] > scored_pois[l][2]
         \/ /\ scored_pois[k][2] = scored_pois[l][2]
            /\ CatalogPos(scored_pois[k][1]) < CatalogPos(scored_pois[l][1])

\* C18 as stated: _score_pois returns one (poi_id, score) entry per catalog
\* POI, by descending score with ties in catalog order, the score being the
\* sum over the interests of 2.0 if the interest is a tag, 1.5 if it is a
\* category and 0.5 if it is a substring of the lower-cased description,
\* plus 3.0 for "must-see", 2.0 for "unesco" and (rating - 4.0) * 0.5.
C18_ScoreAsStated == Scored => ScoredBy(interests)

\* C18 amended: the same, each interest being lower-cased before it is
\* compared with the tags, the categories and the description.
C18_ScoreOfLoweredInterests ==
  Scored => ScoredBy([i \in DOMAIN interests |-> lower(interests[i])])

C18_Witness ==
  /\ pc = "select"
  /\ \E k \in DOMAIN scored_pois :
       /\ k + 1 \in DOMAIN scored_pois
       /\ scored_pois[k][2] = scored_pois[k + 1][2]
       /\ SumWords(poi_index[scored_pois[k][1]], interests, 1) = 0
       /\ SumWords(poi_index[scored_pois[k][1]],
                   [i \in DOMAIN interests |-> lower(interests[i])], 1) = 80
  /\ \E k \in DOMAIN scored_pois : scored_pois[k][2] = 67

\* ------------------------------------------------- a wider venue catalog ----
\* Kinds of venue record: the two of VenueProfiles, an evening venue that
\* closes after midnight (17:00-02:00), and a dear venue without hours.
DiningProfiles == <<
  VenueProfiles[1],
  VenueProfiles[2],
  [opens_at |-> 1020, closing_hours |-> 120, avg_check_usd |-> 12000,
   rating |-> 48],
  [avg_check_usd |-> 40000, rating |-> 49]
>>

DiningRecords ==
  {[i \in DOMAIN c |-> WithId(DiningProfiles[c[i]], VenueIds[i])] :
     c \in SeqsUpTo(DOMAIN DiningProfiles, NumVenues)}

\* POI catalogs that make lunch start at 12:00, at 17:15 and after midnight
DiningPois ==
  {[i \in DOMAIN c |-> WithId(PoiProfiles[c[i]], PoiIds[i])] :
     c \in SeqsUpTo({1, 3}, 2)}

InitVenues ==
  /\ pc = "new"
  /\ \E r \in DiningPois :
       poi_file = [exists |-> TRUE, parses |-> TRUE, records |-> r]
  /\ \E r \in DiningRecords :
       hr_file = [exists |-> TRUE, parses |-> TRUE, records |-> r]
  /\ poi_data = <<>>
  /\ poi_index = EmptyDict
  /\ restaurants = <<>>
  /\ restaurant_index = EmptyDict
  /\ days = 0 /\ interests = <<>> /\ budget = 0 /\ pace = "medium"
  /\ start_date = None /\ current_date = 0
  /\ now \in ClockValues
  /\ reload_pc = 0
  /\ FallbackIdle
  /\ peer = EmptyDict /\ alone = TRUE /\ log = <<>>
  /\ warnings = <<>> /\ plan_days = <<>> /\ total_cost = 0
  /\ poi_count = 0 /\ meal_count = 0
  /\ min_poi = 0 /\ max_poi = 0 /\ scored_pois = <<>> /\ used_poi_ids = {}
  /\ day_num = 0 /\ blocks = <<>> /\ day_cost = 0
  /\ day_pois = <<>> /\ morning_pois = <<>> /\ other_pois = <<>>
  /\ current_time = 0 /\ lunch_rest = <<>> /\ lunch_end = 0
  /\ result = EmptyDict

SpecVenues == InitVenues /\ [][Next]_vars

OpeningTime(v) == Get(v, "opens_at", 0)
ClosingTime(v) == Get(v, "closing_hours", 1439)
AverageCheck(v) == Get(v, "avg_check_usd", 15000)
Rating(v) == Get(v, "rating", 40)

\* the average check is at most 1.5 * (budget / days / 3)
Affordable(v) == AverageCheck(v) * days * 2 <= budget

\* the highest-rated venue of the positions Q, the first of the catalog
\* among equal ratings
BestOf(Q) ==
  CHOOSE i \in Q :
    \A j \in Q :
      \/ Rating(restaurants[j]) < Rating(restaurants[i])
      \/ Rating(restaurants[j]) = Rating(restaurants[i]) /\ i <= j

\* The lunch step has just been taken.  Q: the positions in the catalog of
\* the venues that qualify at the lunch start time.
LunchChoice(Q, start) ==
  LET lunches == SelectSeq(blocks, LAMBDA b : b.name = "lunch")
  IN  IF Q = {}
      THEN /\ lunches = <<>>
           /\ day_cost = SumCost(blocks, 1)
           /\ \A i \in DOMAIN blocks : blocks[i].type = "poi"
      ELSE /\ Len(lunches) = 1
           /\ lunches[1].start = start
           /\ lunches[1].venue_id = restaurants[BestOf(Q)].id

LunchStart == strftime(lunch_end - LunchMinutes)

\* C19 as stated: the lunch venue is the highest-rated venue (the first in
\* catalog order among equal ratings) among those open at the lunch start
\* time (opens <= start <= closes) whose average check is at most
\* 1.5 * (budget / days / 3); when none qualifies the day has no lunch block
\* and no cost is added.
C19_LunchVenueAsStated ==
  pc = "afternoon" =>
    LunchChoice({i \in DOMAIN restaurants :
                   /\ OpeningTime(restaurants[i]) <= LunchStart
                   /\ LunchStart <= ClosingTime(restaurants[i])
                   /\ Affordable(restaurants[i])},
                LunchStart)

\* the closing time the planner compares with: 23:59 when the venue's
\* closing time is not later than its opening time
ClosingCompared(v) ==
  IF ClosingTime(v) <= OpeningTime(v) THEN 1439 ELSE ClosingTime(v)

\* C19 amended: the same, a closing time that is not later than the opening
\* time counting as 23:59.
C19_LunchVenueClosingWrapped ==
  pc = "afternoon" =>
    LunchChoice({i \in DOMAIN restaurants :
                   /\ OpeningTime(restaurants[i]) <= LunchStart
                   /\ LunchStart <= ClosingCompared(restaurants[i])
                   /\ Affordable(restaurants[i])},
                LunchStart)

C19_Witness ==
  /\ pc = "afternoon" /\ LunchStart = 1035
  /\ Len(restaurants) = 2
  /\ restaurants[1] = WithId(DiningProfiles[4], VenueIds[1])
  /\ restaurants[2] = WithId(DiningProfiles[3], VenueIds[2])
  /\ ~Affordable(restaurants[1])
  /\ \E i \in DOMAIN blocks : blocks[i].name = "lunch" /\ blocks[i].venue_id = "v2"

\* the venue is open at time of day t; hours that end at or before the
\* opening time run past midnight
OpenAt(v, t) ==
  IF OpeningTime(v) < ClosingTime(v)
  THEN OpeningTime(v) <= t /\ t <= ClosingTime(v)
  ELSE t >= OpeningTime(v) \/ t <= ClosingTime(v)

VenuePos(id) == CHOOSE i \in DOMAIN restaurants : restaurants[i].id = id

\* C20: in every day that has a lunch and a dinner they name different
\* venues; every dinner block is exactly 19:30-21:00 and its venue is the
\* highest-rated venue, other than that day's lunch venue, that is open at
\* 19:00 with an average check of at most 1.5 * (budget / days / 3).
C20_DinnerVenue ==
  Returned =>
    \A p \in Positions :
      BlockAt(p).name = "dinner" =>
        LET bs == result.days[p[1]].blocks
            lunchIds == {bs[i].venue_id : i \in {k \in DOMAIN bs : bs[k].name = "lunch"}}
            Q == {i \in DOMAIN restaurants :
                    /\ restaurants[i].id \notin lunchIds
                    /\ OpenAt(restaurants[i], 1140)
                    /\ Affordable(restaurants[i])}
        IN  /\ BlockAt(p).venue_id \notin lunchIds
            /\ BlockAt(p).start = 1170 /\ BlockAt(p).end = 1260
            /\ BlockAt(p).venue_id \in {restaurants[i].id : i \in Q}
            /\ \A j \in Q :
                 Rating(restaurants[j]) <= Rating(restaurants[VenuePos(BlockAt(p).venue_id)])

C20_Witness ==
  /\ Returned
  /\ \E p, q \in Positions :
       /\ p[1] = q[1]
       /\ BlockAt(p).name = "lunch" /\ BlockAt(q).name = "dinner"
       /\ Rating(restaurants[VenuePos(BlockAt(p).venue_id)])
            > Rating(restaurants[VenuePos(BlockAt(q).venue_id)])
       /\ OpenAt(restaurants[VenuePos(BlockAt(p).venue_id)], 1140)

\* ------------------------------------------- larger catalogs, every pace ----
\* create_plan on catalogs large enough for a day's selection to exceed what
\* the two segments place, at every pace of PACE_CONFIG and at a pace that
\* is not a key of it, and with a start date that is given, absent, empty
\* or not a date.
MaxPacePois == 5

\* POI lists of morning-tagged (profile 1) and untagged (profile 2) records
PacePois ==
  {[i \in DOMAIN c |-> WithId(PoiProfiles[c[i]], PoiIds[i])] :
     c \in SeqsUpTo({1, 2}, MaxPacePois)}

PaceVenues ==
  {<<>>, <<WithId(VenueProfiles[1], VenueIds[1]),
           WithId(VenueProfiles[2], VenueIds[2])>>}

\* <<pace, start_date>>
PaceCallArgs ==
  {<<p, "2025-03-20">> : p \in {"slow", "medium", "fast", "brisk"}}
  \cup {<<"medium", sd>> : sd \in {None, "", "soon"}}

InitPace ==
  /\ pc = "new"
  /\ \E r \in PacePois :
       poi_file = [exists |-> TRUE, parses |-> TRUE, records |-> r]
  /\ \E r \in PaceVenues :
       hr_file = [exists |-> TRUE, parses |-> TRUE, records |-> r]
  /\ poi_data = <<>>
  /\ poi_index = EmptyDict
  /\ restaurants = <<>>
  /\ restaurant_index = EmptyDict
  /\ days = 0 /\ interests = <<>> /\ budget = 0 /\ pace = "medium"
  /\ start_date = None /\ current_date = 0
  /\ now \in ClockValues
  /\ reload_pc = 0
  /\ FallbackIdle
  /\ peer = EmptyDict /\ alone = TRUE /\ log = <<>>
  /\ warnings = <<>> /\ plan_days = <<>> /\ total_cost = 0
  /\ poi_count = 0 /\ meal_count = 0
  /\ min_poi = 0 /\ max_poi = 0 /\ scored_pois = <<>> /\ used_poi_ids = {}
  /\ day_num = 0 /\ blocks = <<>> /\ day_cost = 0
  /\ day_pois = <<>> /\ morning_pois = <<>> /\ other_pois = <<>>
  /\ current_time = 0 /\ lunch_rest = <<>> /\ lunch_end = 0
  /\ result = EmptyDict

NextPace ==
  \/ Construct
  \/ \E d \in 1..MaxDays, a \in PaceCallArgs :
       Call(d, <<"History", "food">>, 100000, a[1], a[2])
  \/ SelectDay
  \/ Morning
  \/ Lunch
  \/ Afternoon
  \/ Dinner
  \/ Gates

SpecPace == InitPace /\ [][NextPace]_vars

\* ------------------------- AIRoutePlanner._generate_fallback_route ----
\* Durations and times are minutes, money is mills.  A POI of the route
\* planner is a schemas.POI: id, tags, duration_hours, cost_usd.
MaxStalls == 7

HoursPerDay == 420
ActivityCap == 6
RouteDayAnchor == 540
ActivityGap == 30
LongVisit == 300
MountainStart == 420
MountainEnd == 1020
MountainHours == 600

Museum == [id |-> "museum", tags |-> {"must-see"}, duration_hours |-> 120,
           cost_usd |-> 5000]
Lake == [id |-> "lake", tags |-> {"nature"}, duration_hours |-> 240,
         cost_usd |-> 0]
Peak == [id |-> "peak", tags |-> {"mountains", "day_trip"},
         duration_hours |-> 480, cost_usd |-> 30000]
StallIds == <<"s1", "s2", "s3", "s4", "s5", "s6", "s7", "s8">>
Stall(i) == [id |-> StallIds[i], tags |-> {}, duration_hours |-> 60,
             cost_usd |-> 2000]

\* the POI lists a search can hand over: some of museum, lake and peak, in
\* this order, then the first k stalls
RoutePoiLists ==
  {SelectSeq(<<Museum, Lake, Peak>>, LAMBDA p : p.id \in S)
     \o [i \in 1..k |-> Stall(i)] :
       S \in SUBSET {"museum", "lake", "peak"}, k \in 0..MaxStalls}

\* retriever.get_mountain_options(): the POIs with a mountain tag that last
\* 4 hours or more, longest first
MountainLists == {<<>>, <<Peak>>, <<Peak, Lake>>}

\* mountain_day: 0 stands for None, which equals no day number
MountainDays == 0..MaxDays

Styles == {"budget", "balanced", "comfort"}

RouteBudgets == {20000, 100000}

\* lines 394-398: the sort key; avg_rating is not a field of POI, so the
\* third component is the same for every POI
KeyBefore(a, b, prefer_free) ==
  LET k1(p) == IF "must-see" \in p.tags THEN -10 ELSE 0
      k2(p) == IF prefer_free THEN -p.cost_usd ELSE p.cost_usd
  IN  \/ k1(a) < k1(b)
      \/ k1(a) = k1(b) /\ k2(a) < k2(b)

RECURSIVE InsertByKey(_, _, _)
\* p is put behind every element that does not come after it: sorted()
\* is stable
InsertByKey(done, p, prefer_free) ==
  IF done = <<>> THEN <<p>>
  ELSE IF KeyBefore(p, Head(done), prefer_free) THEN <<p>> \o done
       ELSE <<Head(done)>> \o InsertByKey(Tail(done), p, prefer_free)

RECURSIVE SortedByKey(_, _, _)
\* lines 392-399: sorted(pois, key=...)
SortedByKey(ps, n, prefer_free) ==
  IF n = 0 THEN <<>>
  ELSE InsertByKey(SortedByKey(ps, n - 1, prefer_free), ps[n], prefer_free)

\* lines 380, 436: day_cost + cost > (budget_usd / duration_days) * 0.5
OverDailyBudget(total, req) == total * 2 * req.duration_days > req.budget_usd

\* lines 430-437: the four "continue" tests of the city loop
SkipsPoi(poi, used, dcost, dhours, st, req) ==
  \/ poi.id \in used
  \/ "day_trip" \in poi.tags \/ poi.duration_hours >= LongVisit
  \/ dhours + poi.duration_hours > HoursPerDay
  \/ st = "budget" /\ OverDailyBudget(dcost + poi.cost_usd, req)

RECURSIVE CityLoop(_, _, _, _, _, _, _, _, _)
\* lines 429-456: "for poi in sorted_pois" from position i on.  Result: the
\* activities, the used ids, the cost and the hours of the day.
CityLoop(sorted, i, used, acts, dcost, dhours, cursor, st, req) ==
  IF i > Len(sorted)
  THEN [activities |-> acts, used |-> used, cost |-> dcost,
        hours |-> dhours]
  ELSE LET poi == sorted[i]
       IN  IF SkipsPoi(poi, used, dcost, dhours, st, req)
           THEN CityLoop(sorted, i + 1, used, acts, dcost, dhours,
                         cursor, st, req)
           ELSE LET end_time == cursor + poi.duration_hours
                    a == [poi_id |-> poi.id,
                          start_time |-> strftime(cursor),
                          end_time |-> strftime(end_time),
                          cost_usd |-> poi.cost_usd,
                          t0 |-> cursor, t1 |-> end_time]
                IN  IF Len(acts) + 1 >= ActivityCap
                    THEN [activities |-> Append(acts, a),
                          used |-> used \cup {poi.id},
                          cost |-> dcost + poi.cost_usd,
                          hours |-> dhours + poi.duration_hours]
                    ELSE CityLoop(sorted, i + 1, used \cup {poi.id},
                                  Append(acts, a), dcost + poi.cost_usd,
                                  dhours + poi.duration_hours,
                                  end_time + ActivityGap, st, req)

\* line 409: the first option for the budget style, else the last one
MountainChoice(ms, st) ==
  IF st = "budget" THEN ms[1]
  ELSE IF Len(ms) > 1 THEN ms[Len(ms)] ELSE ms[1]

\* lines 375-399: the call, up to the sorted list
FallbackCall(req, ps, ms, md, st) ==
  /\ fb_pc = "idle"
  /\ request' = req /\ route_pois' = ps /\ mountain_pois' = ms
  /\ mountain_day' = md /\ style' = st
  /\ sorted_pois' = SortedByKey(ps, Len(ps), st = "budget")
  /\ used_pois' = {}
  /\ route_days' = <<>>
  /\ route_day_num' = 1
  /\ fb_pc' = "day"
  /\ UNCHANGED <<pc, files, catalog, args, run, daystate, result, now,
                 reload_pc, threads, route>>

\* lines 401-466: one round of "for day_num in range(1, duration_days + 1)"
FallbackDay ==
  /\ fb_pc = "day"
  /\ route_day_num <= request.duration_days
  /\ IF route_day_num = mountain_day /\ mountain_pois # <<>>
     THEN LET mountain == MountainChoice(mountain_pois, style)
          IN  /\ route_days' = Append(route_days,
                    [day |-> route_day_num, theme |-> "mountain",
                     activities |->
                       <<[poi_id |-> mountain.id,
                          start_time |-> MountainStart,
                          end_time |-> MountainEnd,
                          cost_usd |-> mountain.cost_usd,
                          t0 |-> MountainStart, t1 |-> MountainEnd]>>,
                     total_cost |-> mountain.cost_usd,
                     total_hours |-> MountainHours])
              /\ UNCHANGED used_pois
     ELSE LET d == CityLoop(sorted_pois, 1, used_pois, <<>>, 0, 0,
                            RouteDayAnchor, style, request)
          IN  /\ used_pois' = d.used
              /\ route_days' =
                   IF d.activities # <<>>
                   THEN Append(route_days,
                          [day |-> route_day_num,
                           theme |-> IF route_day_num = 1 THEN "center"
                                     ELSE "day",
                           activities |-> d.activities,
                           total_cost |-> d.cost,
                           total_hours |-> d.hours])
                   ELSE route_days
  /\ route_day_num' = route_day_num + 1
  /\ UNCHANGED <<pc, files, catalog, args, run, daystate, result, now,
                 reload_pc, threads, fb_pc, request, route_pois,
                 mountain_pois, mountain_day, style, sorted_pois, route>>

RECURSIVE SumTotalCost(_, _)
\* line 488: sum(d.total_cost for d in days)
SumTotalCost(ds, n) ==
  IF n = 0 THEN 0 ELSE ds[n].total_cost + SumTotalCost(ds, n - 1)

\* lines 468-493: None when no day was built, else the Route
FallbackReturn ==
  /\ fb_pc = "day"
  /\ route_day_num > request.duration_days
  /\ route' = IF route_days = <<>> THEN <<>>
              ELSE <<[id |-> <<"fallback", style>>,
                      duration_days |-> Len(route_days),
                      total_cost_usd |-> SumTotalCost(route_days, Len(route_days)),
                      days |-> route_days, warnings |-> <<>>]>>
  /\ fb_pc' = "returned"
  /\ UNCHANGED <<pc, files, catalog, args, run, daystate, result, now,
                 reload_pc, threads, request, route_pois, mountain_pois,
                 mountain_day, style, sorted_pois, used_pois, route_days,
                 route_day_num>>

InitFallback ==
  /\ pc = "new"
  /\ poi_file = [exists |-> FALSE, parses |-> FALSE, records |-> <<>>]
  /\ hr_file = [exists |-> FALSE, parses |-> FALSE, records |-> <<>>]
  /\ poi_data = <<>>
  /\ poi_index = EmptyDict
  /\ restaurants = <<>>
  /\ restaurant_index = EmptyDict
  /\ days = 0 /\ interests = <<>> /\ budget = 0 /\ pace = "medium"
  /\ start_date = None /\ current_date = 0
  /\ now \in ClockValues
  /\ reload_pc = 0
  /\ FallbackIdle
  /\ peer = EmptyDict /\ alone = TRUE /\ log = <<>>
  /\ warnings = <<>> /\ plan_days = <<>> /\ total_cost = 0
  /\ poi_count = 0 /\ meal_count = 0
  /\ min_poi = 0 /\ max_poi = 0 /\ scored_pois = <<>> /\ used_poi_ids = {}
  /\ day_num = 0 /\ blocks = <<>> /\ day_cost = 0
  /\ day_pois = <<>> /\ morning_pois = <<>> /\ other_pois = <<>>
  /\ current_time = 0 /\ lunch_rest = <<>> /\ lunch_end = 0
  /\ result = EmptyDict

NextFallback ==
  \/ \E d \in 1..MaxDays, b \in RouteBudgets, ps \in RoutePoiLists,
        ms \in MountainLists, md \in MountainDays, st \in Styles :
       FallbackCall([duration_days |-> d, budget_usd |-> b], ps, ms, md, st)
  \/ FallbackDay
  \/ FallbackReturn

SpecFallback == InitFallback /\ [][NextFallback]_vars

\* ------------------------------------------------------ claims C21..C30 ----
DurationOf(id) ==
  Get(Get(poi_index, id, EmptyDict), "duration_hours", DefaultDuration)

TaggedMorning(id) ==
  Get(Get(poi_index, id, EmptyDict), "best_time", None) = "morning"

\* the morning list of the day being built, from the day's selection
MorningList ==
  LET tagged == SelectSeq(day_pois, TaggedMorning)
  IN  IF tagged # <<>> THEN tagged
      ELSE IF day_pois # <<>> THEN <<day_pois[1]>> ELSE <<>>

\* the POI blocks of a block list that start at 09:00
NineOClockPois(bs) ==
  {i \in DOMAIN bs : bs[i].type = "poi" /\ bs[i].start = 9 * 60}

\* C21: when the morning loop of a day has run, the day's blocks are the
\* first two (or fewer) ids of the morning list - the selected POIs tagged
\* "morning", or the first selected POI when none is tagged - in order; the
\* first starts at 09:00, each ends at its start plus its duration, the
\* second starts 15 minutes after the first ends, and the "HH:MM" fields
\* show these times.  A day with a selected POI therefore has a POI block
\* starting at 09:00, also once the day is sorted and appended to the plan.
C21_MorningSegment ==
  /\ pc = "lunch" =>
       LET m == SubSeq(MorningList, 1,
                       IF Len(MorningList) < 2 THEN Len(MorningList) ELSE 2)
       IN  /\ Len(blocks) = Len(m)
           /\ \A i \in DOMAIN blocks :
                /\ blocks[i].type = "poi"
                /\ blocks[i].poi_id = m[i]
                /\ blocks[i].t1 = blocks[i].t0 + DurationOf(m[i])
                /\ blocks[i].start = blocks[i].t0 % 1440
                /\ blocks[i].end = blocks[i].t1 % 1440
           /\ Len(blocks) >= 1 => blocks[1].t0 = 9 * 60
           /\ Len(blocks) = 2 => blocks[2].t0 = blocks[1].t1 + 15
           /\ day_pois # <<>> => NineOClockPois(blocks) # {}
  /\ (pc \in {"select", "gates"} /\ plan_days # <<>> /\ day_pois # <<>>) =>
       NineOClockPois(plan_days[Len(plan_days)].blocks) # {}

\* a day that selected three morning-tagged POIs and placed two of them
C21_Witness ==
  /\ pc = "lunch"
  /\ Len(SelectSeq(day_pois, TaggedMorning)) >= 3
  /\ Len(blocks) = 2
  /\ blocks[2].t0 = 9 * 60 + DurationOf(blocks[1].poi_id) + 15

\* the blocks the afternoon loop appended: those after the morning blocks
\* and the lunch block
AfternoonBlocks ==
  LET before == Len(blocks) - (IF Len(other_pois) < 2 THEN Len(other_pois) ELSE 2)
  IN  SubSeq(blocks, before + 1, Len(blocks))

LunchBlocks(bs) == {i \in DOMAIN bs : bs[i].type = "meal" /\ bs[i].name = "lunch"}

\* C22: when the afternoon loop of a day has run, it has appended the first
\* two (or fewer) of the day's non-morning POIs, in order; the first starts
\* 15 minutes after the end of the lunch window, each ends at its start plus
\* its duration, the second starts 20 minutes after the first ends, the
\* "HH:MM" fields show these times, and each of these blocks starts after
\* the end of the day's lunch block.
C22_AfternoonSegment ==
  pc = "dinner" =>
    LET a == AfternoonBlocks
        o == SubSeq(other_pois, 1, IF Len(other_pois) < 2 THEN Len(other_pois) ELSE 2)
    IN  /\ Len(a) = Len(o)
        /\ \A i \in DOMAIN a :
             /\ a[i].type = "poi"
             /\ a[i].poi_id = o[i]
             /\ a[i].t1 = a[i].t0 + DurationOf(o[i])
             /\ a[i].start = a[i].t0 % 1440
             /\ a[i].end = a[i].t1 % 1440
             /\ \A l \in LunchBlocks(blocks) : a[i].t0 > blocks[l].t1
        /\ Len(a) >= 1 => a[1].t0 = lunch_end + 15
        /\ Len(a) = 2 => a[2].t0 = a[1].t1 + 20
        /\ \A l \in LunchBlocks(blocks) : blocks[l].t1 = lunch_end
        /\ Len(blocks) = Len(a) + Cardinality(LunchBlocks(blocks))
                         + (IF Len(morning_pois) < 2 THEN Len(morning_pois) ELSE 2)

\* a day with a lunch block, two afternoon POIs placed and a third left out
C22_Witness ==
  /\ pc = "dinner"
  /\ Len(other_pois) >= 3
  /\ LunchBlocks(blocks) # {}
  /\ Len(AfternoonBlocks) = 2
  /\ AfternoonBlocks[2].t0 = AfternoonBlocks[1].t1 + 20

PoiBlocks(bs) == {i \in DOMAIN bs : bs[i].type = "poi"}

MealBlocks(bs) == {i \in DOMAIN bs : bs[i].type = "meal"}

\* the per-day POI range of each pace, as <<min_count, max_count>>
RangeOfPace == [slow |-> <<2, 3>>, medium |-> <<3, 4>>, fast |-> <<5, 6>>]

InCreatePlan == pc \in {"select", "morning", "lunch", "afternoon", "dinner",
                        "gates", "done"}

\* C23: in a call with pace slow, medium or fast, create_plan works with
\* the range (2,3), (3,4) or (5,6), and no day of the returned plan has
\* more POI blocks than the max_count of that pace.
C23_PaceBoundsPoiBlocks ==
  /\ (InCreatePlan /\ pace \in DOMAIN RangeOfPace) =>
       <<min_poi, max_poi>> = RangeOfPace[pace]
  /\ (Returned /\ result.pace \in DOMAIN RangeOfPace) =>
       \A d \in DOMAIN result.days :
         Cardinality(PoiBlocks(result.days[d].blocks))
           <= RangeOfPace[result.pace][2]

\* a slow plan over a catalog of more than three POIs, with a day of three
\* POI blocks
C23_Witness ==
  /\ Returned
  /\ result.pace = "slow"
  /\ Len(poi_data) > 3
  /\ \E d \in DOMAIN result.days :
       Cardinality(PoiBlocks(result.days[d].blocks)) = 3

\* the day number of the date a call starts from: the one start_date names
\* when it is a date, else the one of the clock
FirstDate ==
  IF start_date \in DOMAIN Calendar THEN Calendar[start_date]
  ELSE now \div 1440

\* C24: day N of a returned plan is numbered N and dated N - 1 days after
\* the start date when start_date is a date, and N - 1 days after the
\* current date when start_date is absent, empty or not a date; in that case
\* the call still returns, and its warnings are only those of the budget
\* and of the validator.
C24_DatesOfDays ==
  /\ Returned =>
       \A n \in DOMAIN result.days :
         /\ result.days[n].day_number = n
         /\ result.days[n].date = FirstDate + (n - 1)
  /\ (Returned /\ start_date \notin DOMAIN Calendar) =>
       \A i \in DOMAIN result.warnings :
         result.warnings[i].kind \in
           {"budget", "overlap", "unknown_poi", "unknown_restaurant"}

\* a two-day plan returned for a start date that is not a date
C24_Witness ==
  /\ Returned
  /\ start_date = "soon"
  /\ Len(result.days) = 2
  /\ result.days[2].date = (now \div 1440) + 1

\* the POI blocks of a block list whose id is in a list of ids
PoiBlocksOf(bs, ids) == {i \in PoiBlocks(bs) : bs[i].poi_id \in Range(ids)}

PoiIdsOf(bs) == {bs[i].poi_id : i \in PoiBlocks(bs)}

PlacedInPlan == UNION {PoiIdsOf(plan_days[d].blocks) : d \in DOMAIN plan_days}

BuildingDay == pc \in {"morning", "lunch", "afternoon", "dinner"}

\* the ids selected on an earlier day of this call and placed on none
ShelvedEarlier == (used_poi_ids \ Range(day_pois)) \ PlacedInPlan

\* C26: the selector's step returns ids that were not used before and adds
\* all of them to the used-id set before any block of the day is built;
\* the POI blocks of a day are of ids selected for that day, so an id that
\* was selected on an earlier day and not placed is in no block of the day
\* being built, and an id selected and not placed stays out of the plan.
C26_SelectedIdsStayUsed ==
  /\ [](BuildingDay =>
          /\ Range(day_pois) \subseteq used_poi_ids
          /\ PoiIdsOf(blocks) \subseteq Range(day_pois)
          /\ PoiIdsOf(blocks) \cap ShelvedEarlier = {})
  /\ [](Returned => PlacedInPlan \subseteq used_poi_ids)
  /\ [][pc = "select" =>
          /\ Range(day_pois') \cap used_poi_ids = {}
          /\ used_poi_ids' = used_poi_ids \cup Range(day_pois')
          /\ blocks' = <<>>]_vars
  /\ [][BuildingDay => used_poi_ids' = used_poi_ids]_vars

\* day 2 places a POI while a POI selected on day 1 was left out of day 1
C26_Witness ==
  /\ pc = "dinner"
  /\ day_num = 2
  /\ ShelvedEarlier # {}
  /\ PoiIdsOf(blocks) # {}

\* the blocks of the morning loop in the blocks of a day that is past its
\* afternoon loop
MorningBlocks ==
  SubSeq(blocks, 1, IF Len(morning_pois) < 2 THEN Len(morning_pois) ELSE 2)

\* where the cursor stands once the morning loop is over
AfterMorning ==
  IF MorningBlocks = <<>> THEN 9 * 60
  ELSE MorningBlocks[Len(MorningBlocks)].t1 + 15

\* the end of the lunch window: 1 h 30 min after the later of the cursor
\* and 12:00
LunchWindowEnd == (IF AfterMorning >= 12 * 60 THEN AfterMorning ELSE 12 * 60) + 90

\* C27: the cursor is moved to 15 minutes after the end of the lunch window
\* whether or not a lunch block was appended; on a day without lunch block
\* the first afternoon POI starts at max(end of the morning segment + 15 min,
\* 12:00) + 1 h 30 min + 15 min, and such a day has a morning block.
C27_CursorPassesLunchWindow ==
  /\ pc = "afternoon" =>
       /\ lunch_end = LunchWindowEnd
       /\ current_time = LunchWindowEnd + 15
  /\ (pc = "dinner" /\ LunchBlocks(blocks) = {} /\ AfternoonBlocks # <<>>) =>
       /\ MorningBlocks # <<>>
       /\ AfternoonBlocks[1].t0 = LunchWindowEnd + 15
       /\ AfternoonBlocks[1].start = (LunchWindowEnd + 15) % 1440

\* a day without lunch block whose morning ends after 12:00 and whose first
\* afternoon POI starts 1 h 45 min after the cursor left the morning
C27_Witness ==
  /\ pc = "dinner"
  /\ LunchBlocks(blocks) = {}
  /\ AfternoonBlocks # <<>>
  /\ AfterMorning > 12 * 60
  /\ AfternoonBlocks[1].t0 = AfterMorning + 105

\* C28: in a returned plan every POI block names an id of the POI index and
\* every meal block names an id of the venue index, and the warnings hold
\* no unknown-POI and no unknown-restaurant warning.
C28_BlocksResolve ==
  Returned =>
    /\ \A p \in Positions :
         /\ BlockAt(p).type = "poi" => BlockAt(p).poi_id \in DOMAIN poi_index
         /\ BlockAt(p).type = "meal" =>
              BlockAt(p).venue_id \in DOMAIN restaurant_index
    /\ \A i \in DOMAIN result.warnings :
         result.warnings[i].kind \notin {"unknown_poi", "unknown_restaurant"}

\* a returned plan with a POI block and a meal block on its second day
C28_Witness ==
  /\ Returned
  /\ Len(result.days) = 2
  /\ PoiBlocks(result.days[2].blocks) # {}
  /\ MealBlocks(result.days[2].blocks) # {}
  /\ \A p \in Positions :
       BlockAt(p).type = "poi" => BlockAt(p).poi_id \in DOMAIN poi_index

RECURSIVE CountOver(_, _, _)
\* the number of blocks of a type over the first n days of a plan
CountOver(ds, type, n) ==
  IF n = 0 THEN 0
  ELSE Cardinality({i \in DOMAIN ds[n].blocks : ds[n].blocks[i].type = type})
       + CountOver(ds, type, n - 1)

DinnerBlocks(bs) == {i \in DOMAIN bs : bs[i].type = "meal" /\ bs[i].name = "dinner"}

\* C29: in a returned plan poi_count is the number of "poi" blocks and
\* meal_count the number of "meal" blocks over all days, and a day has at
\* most one lunch block and at most one dinner block and no other meal.
C29_CountsMatchBlocks ==
  Returned =>
    /\ result.poi_count = CountOver(result.days, "poi", Len(result.days))
    /\ result.meal_count = CountOver(result.days, "meal", Len(result.days))
    /\ \A d \in DOMAIN result.days :
         LET bs == result.days[d].blocks
         IN  /\ Cardinality(MealBlocks(bs)) <= 2
             /\ Cardinality(LunchBlocks(bs)) <= 1
             /\ Cardinality(DinnerBlocks(bs)) <= 1
             /\ MealBlocks(bs) = LunchBlocks(bs) \cup DinnerBlocks(bs)

\* a two-day plan with a day of two meals and a day with no dinner
C29_Witness ==
  /\ Returned
  /\ Len(result.days) = 2
  /\ \E d \in DOMAIN result.days :
       Cardinality(MealBlocks(result.days[d].blocks)) = 2
  /\ \E d \in DOMAIN result.days : DinnerBlocks(result.days[d].blocks) = {}
  /\ result.poi_count > 0
  /\ result.meal_count = CountOver(result.days, "meal", 2)

RouteReturned == fb_pc = "returned" /\ route # <<>>

\* the activities of a returned route, as <<day position, activity position>>
RouteSlots ==
  UNION {{<<d, a>> : a \in DOMAIN route[1].days[d].activities} :
           d \in DOMAIN route[1].days}

SlotAt(p) == route[1].days[p[1]].activities[p[2]]

RECURSIVE SumDurations(_, _)
SumDurations(acts, n) ==
  IF n = 0 THEN 0 ELSE (acts[n].t1 - acts[n].t0) + SumDurations(acts, n - 1)

\* C30: in a returned fallback route no POI id is the id of two activities,
\* the mountain day's activity included, and a city day has at most 6
\* activities, whose durations sum to at most 7 hours.
C30_FallbackRouteAsStated ==
  RouteReturned =>
    /\ \A p, q \in RouteSlots : SlotAt(p).poi_id = SlotAt(q).poi_id => p = q
    /\ \A d \in DOMAIN route[1].days :
         route[1].days[d].theme # "mountain" =>
           /\ Len(route[1].days[d].activities) <= 6
           /\ SumDurations(route[1].days[d].activities,
                           Len(route[1].days[d].activities)) <= 7 * 60
====
